---- MODULE Spec2Model ----
(***************************************************************************)
(* TokenMonitor (src/main.py): the per-contract pipeline process_contract, *)
(* its dedup marker in the key-value store, the retry loop of              *)
(* base_analysis, the gathered checks of cross_validate and push_alert.    *)
(*                                                                         *)
(* The coroutines run on one asyncio event loop.  A step of the model is   *)
(* the stretch of code one coroutine executes between two suspension       *)
(* points; `running` names the coroutine that holds the loop.  The store   *)
(* client is redis.Redis, whose calls are plain (not awaited) calls, so    *)
(* they are steps inside a stretch.  The methods the class calls but does  *)
(* not define (gmgn_safety_check, get_market_context, parse_response,      *)
(* check_dev_expertise, verify_market_hype, simulate_trading,              *)
(* fusion_results, generate_visual_report) and the remote services are     *)
(* the environment: each returns one of its possible results or faults.    *)
(* Store calls are taken to complete (no connection error).                *)
(***************************************************************************)
EXTENDS Integers, Sequences, FiniteSets, TLC

\* Number of process_contract calls the discovery feed makes in a behaviour.
NumCalls == 2

\* The calls that can be in progress at once: a later call takes the place of
\* a call that has ended (whose history is then dropped).
Runs == {1, 2}

\* Contract addresses the feed can deliver.
Addrs == {"a1", "a2"}

\* Mutant: the retry loop runs once too often.
MaxAttemptsOffByOne == 3 + 1

\* range(3) in base_analysis.
MaxAttempts == 3

\* Expiry passed to redis.setex.
MarkerTTL == 600

\* self.investment_grade
investment_grade == {"A+", "A", "B+"}

\* Grades a fused analysis can carry (the accepted ones and a lower one).
Grades == investment_grade \cup {"B"}

\* Reports generate_visual_report can return: text (a sequence of lines) and chart.
Reports == { [text |-> <<"t1">>, chart |-> "c1"],
             [text |-> <<"t2", "t3">>, chart |-> "c2"] }

\* os.getenv('TG_CHAT_ID')
ChatId == "TG_CHAT_ID"

\* The three coroutines handed to asyncio.gather, by position in `tasks`.
Checks == {"dev_skill", "hype_index", "volatility"}

None == "None"

\* report[r] before generate_visual_report has returned.
NoReport == [text |-> <<>>, chart |-> None]

\* Mutant: the existence check never finds the key.
StoreExistsNever(s, key) == FALSE

\* redis exists / setex / delete on a store s.
StoreExists(s, key) == key \in DOMAIN s

\* A setex that does not reach the store.
StoreSetexLost(s, key, val) == s

\* A setex under one key shared by all contracts instead of the address.
StoreSetexSharedKey(s, key, val) ==
    [k \in DOMAIN s \cup {"a1"} |-> IF k = "a1" THEN val ELSE s[k]]

StoreSetex(s, key, val) ==
    [k \in DOMAIN s \cup {key} |-> IF k = key THEN val ELSE s[k]]

\* A delete that does not reach the store.
StoreDeleteLost(s, key) == s

StoreDelete(s, key) == [k \in DOMAIN s \ {key} |-> s[k]]

VARIABLES
    made,      \* number of process_contract calls made so far
    pc,        \* pc[r]: where call r of process_contract is
    addr,      \* addr[r]: contract['address'] of call r
    retry,     \* retry[r]: loop variable of base_analysis (0 outside the loop)
    analysis,  \* analysis[r]: result of base_analysis ("none" before it returns)
    checks,    \* checks[r][k]: state of gathered check k of call r
    grade,     \* grade[r]: analysis['grade'] after fusion_results
    report,    \* report[r]: the report generate_visual_report returned
    sent,      \* sent[r]: the send_photo invocations made by call r
    store,     \* the key-value store: a function from the keys it holds to their values
    window,    \* the keys whose last setex is less than MarkerTTL seconds ago
    nap,       \* per call: the seconds of the asyncio.sleep it is in, 0 outside one
    running,   \* the call whose coroutine holds the event loop, 0 when idle
    calls,     \* calls[r]: analysis-client calls of the running base_analysis (history)
    did,       \* did[r]: the stages call r has started (history)
    outcome    \* outcome[r]: result of the safety check / stage that faulted (history)

vars == <<made, pc, addr, retry, nap, analysis, checks, grade, report, sent, store,
          window, nap, running, calls, did, outcome>>

Done == {"returned", "raised"}

\* Between the marker set (line 77) and the end of the finally block (line 96).
InPipeline == {"safety", "market", "llm", "sleep", "gather", "report", "send",
               "finally_return", "finally_raise"}

\* The value redis.setex stores; `by` records the call that wrote it (history).
Marker(r) == [value |-> "processing", ttl |-> MarkerTTL, by |-> r]

\* A coroutine can take a step when the loop is idle or it already holds it.
LoopFree(r) == running \in {0, r}

\* Mutant: the store call is awaited (an asynchronous client), releasing the loop.
AfterAwaitedStoreCall(r) == 0

\* self.redis.exists / self.redis.setex are not awaited: the call keeps the loop.
AfterStoreCall(r) == r

\* Mutant: the delete is not in a finally block, a fault leaves without it.
ExitPcNoCleanupOnFault(kind) == IF kind = "fault" THEN "raised" ELSE "finally_return"

\* Mutant: the delete is in an except block only, a return leaves without it.
ExitPcNoCleanupOnReturn(kind) == IF kind = "fault" THEN "finally_raise" ELSE "returned"

\* A handler that catches the fault of a stage and returns normally.
ExitPcSwallowsFault(kind) == "finally_return"

\* try/finally: every way out of the try block goes through the finally block.
ExitPc(kind) == IF kind = "fault" THEN "finally_raise" ELSE "finally_return"

\* Mutant: the caption is the header alone.
CaptionWithoutText(rep) == <<"", "DeepSeek alert header">> \o <<"        ">>

\* f"""\n header \n{report['text']}\n        """ as a sequence of lines.
Caption(rep) == <<"", "DeepSeek alert header">> \o rep.text \o <<"        ">>

\* The keyword arguments of self.bot.send_photo.
Message(rep) == [chat_id |-> ChatId,
                 photo |-> [input_file |-> rep.chart],
                 caption |-> Caption(rep),
                 parse_mode |-> "MarkdownV2"]

\* Mutant: the early return after the safety check is missing.
SafetyRejectsNever(res) == FALSE

\* if not await self.gmgn_safety_check(contract): return
SafetyRejects(res) == res # "True"

\* Mutant: grade "B" is accepted too.
RejectedBelowB(g) == g \notin {"A+", "A", "B+", "B"}

\* analysis['grade'] not in self.investment_grade
Rejected(g) == g \notin investment_grade

Init ==
    /\ made = 0
    /\ pc = [r \in Runs |-> "new"]
    /\ addr = [r \in Runs |-> None]
    /\ retry = [r \in Runs |-> 0]
    /\ analysis = [r \in Runs |-> "none"]
    /\ checks = [r \in Runs |-> [k \in Checks |-> "idle"]]
    /\ grade = [r \in Runs |-> None]
    /\ report = [r \in Runs |-> NoReport]
    /\ sent = [r \in Runs |-> <<>>]
    /\ store = <<>>
    /\ window = {}
    /\ nap = [r \in Runs |-> 0]
    /\ running = 0
    /\ calls = [r \in Runs |-> 0]
    /\ did = [r \in Runs |-> {}]
    /\ outcome = [r \in Runs |-> "none"]

\* Line 54: asyncio.sleep(2 ** retry).
Backoff(n) == 2 ^ n

\* Mutant: the wait ends as soon as one awaitable has returned.
GatheredFirstCompleted(r) == \E k \in Checks : checks[r][k] = "done"

\* Line 64: asyncio.gather returns its list of results once every one of the
\* awaitables it was given has returned.
Gathered(r) == \A k \in Checks : checks[r][k] = "done"

\* Leave the try block of call r: the finally block runs next, without suspension.
Exit(r, kind, why) ==
    /\ pc' = [pc EXCEPT ![r] = ExitPc(kind)]
    /\ running' = r
    /\ outcome' = [outcome EXCEPT ![r] = why]

\* The feed, on the same event loop, schedules process_contract(contract) for
\* a contract with address a.
Call(r, a) ==
    /\ made < NumCalls
    /\ running = 0
    /\ pc[r] \in {"new"} \cup Done
    /\ pc[r] = "new" => \A q \in Runs : q < r => pc[q] # "new"
    /\ made' = made + 1
    /\ pc' = [pc EXCEPT ![r] = "start"]
    /\ addr' = [addr EXCEPT ![r] = a]
    /\ retry' = [retry EXCEPT ![r] = 0]
    /\ nap' = [nap EXCEPT ![r] = 0]
    /\ analysis' = [analysis EXCEPT ![r] = "none"]
    /\ checks' = [checks EXCEPT ![r] = [k \in Checks |-> "idle"]]
    /\ grade' = [grade EXCEPT ![r] = None]
    /\ report' = [report EXCEPT ![r] = NoReport]
    /\ sent' = [sent EXCEPT ![r] = <<>>]
    /\ calls' = [calls EXCEPT ![r] = 0]
    /\ did' = [did EXCEPT ![r] = {}]
    /\ outcome' = [outcome EXCEPT ![r] = "none"]
    /\ UNCHANGED <<store, window, running>>

\* Lines 73-74: if self.redis.exists(address): return
Exists(r) ==
    /\ pc[r] = "start"
    /\ LoopFree(r)
    /\ did' = [did EXCEPT ![r] = @ \cup {"exists"}]
    /\ IF StoreExists(store, addr[r])
         THEN /\ pc' = [pc EXCEPT ![r] = "returned"]
              /\ running' = 0
              /\ outcome' = [outcome EXCEPT ![r] = "skip"]
         ELSE /\ pc' = [pc EXCEPT ![r] = "checked"]
              /\ running' = AfterStoreCall(r)
              /\ UNCHANGED outcome
    /\ UNCHANGED <<made, addr, retry, nap, analysis, checks, grade, report, sent, store, window, calls>>

\* Mutant: the safety check is started before the marker is set.
SetexAfterSafetyCheck(r) ==
    /\ pc[r] = "checked"
    /\ LoopFree(r)
    /\ pc' = [pc EXCEPT ![r] = "safety"]
    /\ running' = 0
    /\ did' = [did EXCEPT ![r] = @ \cup {"safety"}]
    /\ UNCHANGED <<made, addr, retry, nap, analysis, checks, grade, report, sent, store,
                   window, calls, outcome>>

\* Lines 77-81: setex, enter the try block, await gmgn_safety_check.
Setex(r) ==
    /\ pc[r] = "checked"
    /\ LoopFree(r)
    /\ store' = StoreSetex(store, addr[r], Marker(r))
    /\ window' = window \cup {addr[r]}
    /\ pc' = [pc EXCEPT ![r] = "safety"]
    /\ running' = 0
    /\ did' = [did EXCEPT ![r] = @ \cup {"setex", "safety"}]
    /\ UNCHANGED <<made, addr, retry, nap, analysis, checks, grade, report, sent, calls, outcome>>

\* Lines 81-85, 34, 40-43: the safety check answers; on True enhanced_analysis
\* and base_analysis start and await get_market_context.
SafetyDone(r, res) ==
    /\ pc[r] = "safety"
    /\ LoopFree(r)
    /\ IF res = "fault"
         THEN /\ Exit(r, "fault", "safety_fault")
              /\ UNCHANGED did
         ELSE IF SafetyRejects(res)
         THEN /\ Exit(r, "return", IF res = "True" THEN "safe" ELSE "unsafe")
              /\ UNCHANGED did
         ELSE /\ pc' = [pc EXCEPT ![r] = "market"]
              /\ running' = 0
              /\ outcome' = [outcome EXCEPT ![r] = IF res = "True" THEN "safe" ELSE "unsafe"]
              /\ did' = [did EXCEPT ![r] = @ \cup {"analysis", "market"}]
    /\ UNCHANGED <<made, addr, retry, nap, analysis, checks, grade, report, sent, store, window, calls>>

\* Lines 42-46: the market context arrives, the prompt is formatted and the
\* first attempt calls the analysis client.
MarketDone(r, res) ==
    /\ pc[r] = "market"
    /\ LoopFree(r)
    /\ IF res = "ok"
         THEN /\ pc' = [pc EXCEPT ![r] = "llm"]
              /\ running' = 0
              /\ retry' = [retry EXCEPT ![r] = 0]
              /\ calls' = [calls EXCEPT ![r] = @ + 1]
              /\ UNCHANGED outcome
         ELSE /\ Exit(r, "fault", "market_fault")
              /\ UNCHANGED <<retry, calls>>
    /\ UNCHANGED <<made, addr, nap, analysis, checks, grade, report, sent, store, window, did>>

\* Lines 35, 59-64: base_analysis has returned `result` (its locals are gone);
\* cross_validate creates the three check coroutines and awaits asyncio.gather.
Dispatch(r, result) ==
    /\ analysis' = [analysis EXCEPT ![r] = result]
    /\ retry' = [retry EXCEPT ![r] = 0]
    /\ calls' = [calls EXCEPT ![r] = 0]
    /\ nap' = [nap EXCEPT ![r] = 0]
    /\ checks' = [checks EXCEPT ![r] = [k \in Checks |-> "running"]]
    /\ pc' = [pc EXCEPT ![r] = "gather"]
    /\ running' = 0
    /\ did' = [did EXCEPT ![r] = @ \cup {"cross"}]

\* Lines 46-54: the attempt ends.  create and parse_response are both inside
\* the try: either one raising is caught, logged and followed by the sleep.
LlmDone(r, res) ==
    /\ pc[r] = "llm"
    /\ LoopFree(r)
    /\ IF res = "ok"
         THEN Dispatch(r, "parsed")
         ELSE /\ pc' = [pc EXCEPT ![r] = "sleep"]
              /\ nap' = [nap EXCEPT ![r] = Backoff(retry[r])]
              /\ running' = 0
              /\ UNCHANGED <<retry, calls, analysis, checks, did>>
    /\ UNCHANGED <<made, addr, grade, report, sent, store, window, outcome>>

\* Mutant: the retry loop has no bound (while True in place of range(3)).
SleepDoneRetryForever(r) ==
    /\ pc[r] = "sleep"
    /\ LoopFree(r)
    /\ pc' = [pc EXCEPT ![r] = "llm"]
    /\ running' = 0
    /\ calls' = [calls EXCEPT ![r] = @ + 1]
    /\ nap' = [nap EXCEPT ![r] = 0]
    /\ UNCHANGED <<made, addr, retry, analysis, checks, grade, report, sent, store, window,
                   did, outcome>>

\* Lines 44, 54-55: asyncio.sleep(2**retry) elapses; the loop takes the next
\* value of retry or ends and base_analysis returns None.
SleepDone(r) ==
    /\ pc[r] = "sleep"
    /\ LoopFree(r)
    /\ IF retry[r] + 1 < MaxAttempts
         THEN /\ retry' = [retry EXCEPT ![r] = @ + 1]
              /\ pc' = [pc EXCEPT ![r] = "llm"]
              /\ running' = 0
              /\ calls' = [calls EXCEPT ![r] = @ + 1]
              /\ nap' = [nap EXCEPT ![r] = 0]
              /\ UNCHANGED <<analysis, checks, did>>
         ELSE Dispatch(r, "null")
    /\ UNCHANGED <<made, addr, grade, report, sent, store, window, outcome>>

\* Lines 60-62: one of the gathered checks ends, with a result or a fault.
\* gather does not cancel the others, so a check can end after its call has.
CheckDone(r, k, res) ==
    /\ checks[r][k] = "running"
    /\ running = 0
    /\ checks' = [checks EXCEPT ![r][k] = res]
    /\ UNCHANGED <<made, pc, addr, retry, nap, analysis, grade, report, sent, store, window,
                   running, calls, did, outcome>>

\* Line 64: gather re-raises the first fault of a check to cross_validate;
\* nothing up to process_contract catches it.
GatherRaise(r) ==
    /\ pc[r] = "gather"
    /\ LoopFree(r)
    /\ \E k \in Checks : checks[r][k] = "faulted"
    /\ Exit(r, "fault", "check_fault")
    /\ UNCHANGED <<made, addr, retry, nap, analysis, checks, grade, report, sent, store, window, calls, did>>

\* Lines 64-69, 36, 86-90: all three checks returned; fusion_results combines
\* them with the analysis (it faults, or its result carries grade g); the
\* grade test; await generate_visual_report.
GatherReturn(r, g) ==
    /\ pc[r] = "gather"
    /\ LoopFree(r)
    /\ Gathered(r)
    /\ IF g = "fault"
         THEN /\ Exit(r, "fault", "fusion_fault")
              /\ did' = [did EXCEPT ![r] = @ \cup {"fusion"}]
              /\ UNCHANGED grade
         ELSE /\ grade' = [grade EXCEPT ![r] = g]
              /\ IF Rejected(g)
                   THEN /\ Exit(r, "return", "rejected")
                        /\ did' = [did EXCEPT ![r] = @ \cup {"fusion"}]
                   ELSE /\ pc' = [pc EXCEPT ![r] = "report"]
                        /\ running' = 0
                        /\ did' = [did EXCEPT ![r] = @ \cup {"fusion", "report"}]
                        /\ UNCHANGED outcome
    /\ UNCHANGED <<made, addr, retry, nap, analysis, checks, report, sent, store, window, calls>>

\* Lines 90-110: the report arrives; push_alert builds the photo and the
\* caption and awaits bot.send_photo.
ReportDone(r, res, rep) ==
    /\ pc[r] = "report"
    /\ LoopFree(r)
    /\ IF res = "fault"
         THEN /\ Exit(r, "fault", "report_fault")
              /\ UNCHANGED <<report, sent, did>>
         ELSE /\ report' = [report EXCEPT ![r] = rep]
              /\ sent' = [sent EXCEPT ![r] = Append(@, Message(rep))]
              /\ pc' = [pc EXCEPT ![r] = "send"]
              /\ running' = 0
              /\ did' = [did EXCEPT ![r] = @ \cup {"push", "send"}]
              /\ UNCHANGED outcome
    /\ UNCHANGED <<made, addr, retry, nap, analysis, checks, grade, store, window, calls>>

\* Lines 105-110, 93: send_photo answers; push_alert returns or the fault
\* propagates.
SendDone(r, res) ==
    /\ pc[r] = "send"
    /\ LoopFree(r)
    /\ IF res = "ok"
         THEN Exit(r, "return", "pushed")
         ELSE Exit(r, "fault", "send_fault")
    /\ UNCHANGED <<made, addr, retry, nap, analysis, checks, grade, report, sent, store, window, calls, did>>

\* Lines 95-96: the finally block deletes the key, then the call returns or
\* the pending fault propagates to the caller.
Delete(r) ==
    /\ pc[r] \in {"finally_return", "finally_raise"}
    /\ LoopFree(r)
    /\ store' = StoreDelete(store, addr[r])
    /\ pc' = [pc EXCEPT ![r] = IF pc[r] = "finally_raise" THEN "raised" ELSE "returned"]
    /\ running' = 0
    /\ did' = [did EXCEPT ![r] = @ \cup {"delete"}]
    /\ UNCHANGED <<made, window, addr, retry, nap, analysis, checks, grade, report, sent, calls, outcome>>

\* Line 77: MarkerTTL seconds have passed since the last setex of key a; the
\* store drops the key if it still holds it.  No stage of the pipeline has a
\* timeout, so a run can outlast the expiry.
Expire(a) ==
    /\ a \in window
    /\ window' = window \ {a}
    /\ store' = StoreDelete(store, a)
    /\ UNCHANGED <<made, pc, addr, retry, nap, analysis, checks, grade, report, sent, running,
                   calls, did, outcome>>

Next ==
    \/ \E r \in Runs, a \in Addrs : Call(r, a)
    \/ \E r \in Runs : Exists(r)
    \/ \E r \in Runs : Setex(r)
    \/ \E r \in Runs, res \in {"True", "False", "fault"} : SafetyDone(r, res)
    \/ \E r \in Runs, res \in {"ok", "fault"} : MarketDone(r, res)
    \/ \E r \in Runs, res \in {"ok", "create_fault", "parse_fault"} : LlmDone(r, res)
    \/ \E r \in Runs : SleepDone(r)
    \/ \E r \in Runs, k \in Checks, res \in {"done", "faulted"} : CheckDone(r, k, res)
    \/ \E r \in Runs : GatherRaise(r)
    \/ \E r \in Runs, g \in Grades \cup {"fault"} : GatherReturn(r, g)
    \/ \E r \in Runs, res \in {"ok", "fault"}, rep \in Reports : ReportDone(r, res, rep)
    \/ \E r \in Runs, res \in {"ok", "fault"} : SendDone(r, res)
    \/ \E r \in Runs : Delete(r)
    \/ \E a \in Addrs : Expire(a)

Spec == Init /\ [][Next]_vars

\* The steps of call r itself, and the steps of the checks it dispatched:
\* an external call answers or faults, a sleep elapses, the coroutine goes on.
RunStep(r) ==
    \/ Exists(r)
    \/ Setex(r)
    \/ \E res \in {"True", "False", "fault"} : SafetyDone(r, res)
    \/ \E res \in {"ok", "fault"} : MarketDone(r, res) \/ SendDone(r, res)
    \/ \E res \in {"ok", "create_fault", "parse_fault"} : LlmDone(r, res)
    \/ SleepDone(r)
    \/ GatherRaise(r)
    \/ \E g \in Grades \cup {"fault"} : GatherReturn(r, g)
    \/ ReportDone(r, "fault", NoReport)
    \/ \E rep \in Reports : ReportDone(r, "ok", rep)
    \/ Delete(r)

CheckStep(r) == \E k \in Checks, res \in {"done", "faulted"} : CheckDone(r, k, res)


(***************************************************************************)
(* Properties                                                              *)
(***************************************************************************)

\* Call r ends (returns or raises) in this step.
Ends(r) == pc[r] \notin Done /\ pc'[r] \in Done

\* The stages after the safety check.
LaterStages == {"analysis", "market", "cross", "fusion", "report", "push", "send"}

\* text occurs in cap as a contiguous run of lines.
Contains(cap, text) ==
    \E i \in 1..(Len(cap) - Len(text) + 1) : SubSeq(cap, i, i + Len(text) - 1) = text

\* C1 as stated: immediately after any call of process_contract returns or
\* raises, the store holds no marker for the call's address.
C1_NoMarkerAfterAnyCall ==
    [][\A r \in Runs : Ends(r) => addr[r] \notin DOMAIN store']_vars

\* C1 amended: immediately after a call that passed the existence check (did
\* not return through the skip path) returns or raises, the store holds no
\* marker for the call's address.
C1_NoMarkerAfterPipelineRun ==
    [][\A r \in Runs : Ends(r) /\ pc[r] # "start" => addr[r] \notin DOMAIN store']_vars

C1_Witness ==
    \E r, q \in Runs :
        /\ r # q /\ addr[r] = addr[q]
        /\ pc[r] = "raised" /\ "delete" \in did[r]
        /\ pc[q] \in InPipeline
        /\ addr[r] \notin DOMAIN store

\* C2: a call that set the marker has executed redis.delete when it has ended,
\* whichever way it left the try block: safety check negative, grade not
\* accepted, alert pushed, or a fault of a stage.
C2_DeleteOnEveryExit ==
    \A r \in Runs :
        pc[r] \in Done /\ "setex" \in did[r]
            => /\ "delete" \in did[r]
               /\ outcome[r] \in {"unsafe", "rejected", "pushed", "safety_fault",
                                   "market_fault", "check_fault", "fusion_fault",
                                   "report_fault", "send_fault"}

C2_Witness ==
    \E r, q \in Runs :
        /\ pc[r] = "returned" /\ outcome[r] = "rejected" /\ "delete" \in did[r]
        /\ pc[q] = "raised" /\ outcome[q] = "send_fault" /\ "delete" \in did[q]

\* C3 as stated: at most one call per address is between its marker set and
\* its marker delete.
C3_AtMostOneRunPerAddress ==
    \A r, q \in Runs :
        r # q /\ pc[r] \in InPipeline /\ pc[q] \in InPipeline => addr[r] # addr[q]

\* C4: a call whose existence check finds a marker returns at once: it starts
\* no stage, sends nothing and leaves the store as it was; a skipped call
\* never does anything else.
C4_SkipIsNoOp ==
    [][\A r \in Runs :
         /\ pc[r] = "start" /\ pc'[r] # "start" /\ addr[r] \in DOMAIN store
              => pc'[r] = "returned" /\ store' = store /\ outcome'[r] = "skip"
         /\ outcome'[r] = "skip"
              => /\ pc'[r] = "returned"
                 /\ did'[r] = {"exists"}
                 /\ sent'[r] = <<>>
                 /\ calls'[r] = 0
                 /\ \A k \in Checks : checks'[r][k] = "idle"]_vars

C4_Witness ==
    \E r, q \in Runs :
        /\ r # q /\ addr[r] = addr[q]
        /\ pc[r] \in InPipeline
        /\ addr[r] \in DOMAIN store /\ store[addr[r]].by = r
        /\ pc[q] = "returned" /\ outcome[q] = "skip"

\* C5 as stated, its premise: a call that has passed the existence check and
\* not yet set the marker is suspended, so another call can run in between.
C5_SuspendsBetweenCheckAndSet ==
    \A r \in Runs : pc[r] = "checked" => running # r

\* C5 amended: the existence check and the marker set run in one stretch
\* without suspension; no other call takes a step in between, so the key is
\* still absent at the set and no two calls have both passed the check before
\* either has set the marker.
C5_CheckThenSetNotInterleaved ==
    \A r \in Runs :
        pc[r] = "checked"
            => /\ running = r
               /\ addr[r] \notin DOMAIN store
               /\ \A q \in Runs : q # r => pc[q] # "checked"

C5_Witness ==
    \E r, q \in Runs :
        r # q /\ addr[r] = addr[q] /\ pc[r] = "checked" /\ pc[q] = "start"

\* C6: a call whose safety check returned false starts no analysis, no
\* cross-validation, no report and no push, sends nothing, and ends by return.
C6_UnsafeNeverPushes ==
    \A r \in Runs :
        outcome[r] = "unsafe"
            => /\ did[r] \cap LaterStages = {}
               /\ sent[r] = <<>>
               /\ calls[r] = 0
               /\ \A k \in Checks : checks[r][k] = "idle"
               /\ pc[r] \in {"finally_return", "returned"}

C6_Witness ==
    \E r \in Runs : outcome[r] = "unsafe" /\ pc[r] = "returned"

\* C7: a call whose fused grade is outside {"A+","A","B+"} generates no report
\* and pushes nothing; a call that pushes has a grade in that set.
C7_GradeGate ==
    \A r \in Runs :
        /\ grade[r] # None /\ grade[r] \notin {"A+", "A", "B+"}
              => /\ did[r] \cap {"report", "push", "send"} = {}
                 /\ sent[r] = <<>>
                 /\ pc[r] \in {"finally_return", "returned"}
        /\ did[r] \cap {"report", "push", "send"} # {} \/ sent[r] # <<>>
              => grade[r] \in {"A+", "A", "B+"}

C7_Witness ==
    \E r, q \in Runs :
        /\ grade[r] = "B" /\ pc[r] = "returned"
        /\ grade[q] = "B+" /\ "push" \in did[q]

\* C8: a call that set the marker, passed the safety check, got an accepted
\* grade and returned without a fault has invoked send_photo exactly once, to
\* the configured chat id, with the report's chart as photo and a caption
\* containing the report's text; no call invokes send_photo more than once.
C8_AlertSentOnce ==
    \A r \in Runs :
        /\ Len(sent[r]) <= 1
        /\ pc[r] = "returned" /\ grade[r] \in {"A+", "A", "B+"}
              => /\ Len(sent[r]) = 1
                 /\ sent[r][1].chat_id = "TG_CHAT_ID"
                 /\ sent[r][1].photo = [input_file |-> report[r].chart]
                 /\ report[r] \in Reports
                 /\ Contains(sent[r][1].caption, report[r].text)

C8_Witness ==
    \E r \in Runs :
        /\ pc[r] = "returned" /\ grade[r] = "A" /\ outcome[r] = "pushed"
        /\ Len(report[r].text) = 2

\* C9: one base_analysis makes at most 3 analysis-client calls; it returns
\* the parsed response from the attempt that succeeded, with no further call;
\* it returns the null result exactly after 3 failed attempts; it never
\* raises out of the retry loop.
C9_AtMostThreeAttempts ==
    [][\A r \in Runs :
         /\ calls'[r] <= 3
         /\ analysis[r] = "none" /\ analysis'[r] = "parsed"
              => pc[r] = "llm" /\ pc'[r] = "gather"
         /\ analysis[r] = "none" /\ analysis'[r] = "null"
              => pc[r] = "sleep" /\ calls[r] = 3 /\ pc'[r] = "gather"
         /\ pc[r] = "sleep" /\ calls[r] = 3 /\ pc'[r] # "sleep"
              => analysis'[r] = "null"
         /\ pc[r] \in {"llm", "sleep"} => pc'[r] \in {"llm", "sleep", "gather"}
         /\ analysis[r] # "none" => calls'[r] = 0 /\ pc'[r] \notin {"llm", "sleep"}]_vars

C9_Witness ==
    \E r, q \in Runs :
        /\ pc[r] = "gather" /\ analysis[r] = "null"
        /\ pc[q] = "llm" /\ calls[q] = 3

\* C10 as stated: a call whose base analysis failed on all 3 attempts ends
\* like a filter rejection: it returns, has pushed nothing and has deleted
\* the marker.
C10_NullAnalysisIsRejection ==
    \A r \in Runs :
        analysis[r] = "null" /\ pc[r] \in Done
            => /\ pc[r] = "returned"
               /\ "push" \notin did[r] /\ sent[r] = <<>>
               /\ "delete" \in did[r]

StageFaults ==
    {"safety_fault", "check_fault", "fusion_fault", "report_fault", "send_fault"}

\* C11: when a stage after the marker is set faults (the safety check, one of
\* the three checks, fusion, report generation, the send), the call starts
\* no later stage, deletes the marker next, and then raises that fault: the
\* fault is not swallowed and the stage is not tried again.
C11_FaultDeletesThenPropagates ==
    [][\A r \in Runs :
         /\ outcome'[r] \in StageFaults /\ outcome[r] # outcome'[r]
              => /\ pc'[r] = "finally_raise" /\ running' = r
                 /\ "setex" \in did[r] /\ "delete" \notin did'[r]
                 /\ outcome'[r] = "safety_fault" => pc[r] = "safety"
                 /\ outcome'[r] = "check_fault"
                      => pc[r] = "gather" /\ \E k \in Checks : checks[r][k] = "faulted"
                 /\ outcome'[r] = "fusion_fault" => pc[r] = "gather" /\ Gathered(r)
                 /\ outcome'[r] = "report_fault" => pc[r] = "report"
                 /\ outcome'[r] = "send_fault" => pc[r] = "send" /\ Len(sent'[r]) = 1
         /\ outcome[r] \in StageFaults /\ pc[r] = "finally_raise" /\ pc'[r] # pc[r]
              => /\ pc'[r] = "raised"
                 /\ addr[r] \notin DOMAIN store'
                 /\ did'[r] = did[r] \cup {"delete"}
                 /\ outcome'[r] = outcome[r]
                 /\ sent'[r] = sent[r] /\ calls'[r] = calls[r]
         /\ outcome[r] \in StageFaults /\ pc[r] = "raised"
              => \/ pc'[r] = "start"
                 \/ /\ pc'[r] = "raised" /\ outcome'[r] = outcome[r]
                    /\ did'[r] = did[r] /\ sent'[r] = sent[r]
         /\ outcome[r] \in StageFaults => pc[r] \in {"finally_raise", "raised"}]_vars

C11_Witness ==
    \E r, q \in Runs :
        /\ pc[r] = "raised" /\ outcome[r] = "check_fault" /\ "delete" \in did[r]
        /\ pc[q] = "raised" /\ outcome[q] = "send_fault" /\ "delete" \in did[q]

\* Call r gets past the existence check in this step.
PassesCheck(r) == pc[r] = "start" /\ pc'[r] = "checked"

\* C12 as stated: once a call has set the marker for an address, no call for
\* that address gets past the existence check during the following 600
\* seconds, a call made after the first one has finished included.
C12_NoSecondRunWithinWindow ==
    [][\A r \in Runs : PassesCheck(r) => addr[r] \notin window]_vars

\* C12: once a call has set the marker for an address, the marker stays in
\* the store until a call for that address deletes it in its finally block
\* or 600 seconds have passed since it was set, and for as long as it is in
\* the store no call for that address gets past the existence check.
C12_NoSecondRunWhileMarked ==
    [][/\ \A r \in Runs :
            /\ PassesCheck(r) => addr[r] \notin DOMAIN store
            /\ pc[r] = "checked" /\ pc'[r] # "checked"
                 => addr[r] \in DOMAIN store' /\ addr[r] \in window'
       /\ \A a \in Addrs :
            a \in DOMAIN store /\ a \notin DOMAIN store'
                 => \/ a \notin window'
                    \/ \E r \in Runs :
                          /\ addr[r] = a
                          /\ pc[r] \in {"finally_return", "finally_raise"}
                          /\ pc'[r] \in Done]_vars

C12_Witness ==
    \E r, q \in Runs :
        /\ r # q /\ addr[r] = addr[q]
        /\ pc[q] \in Done /\ "delete" \in did[q]
        /\ pc[r] = "checked" /\ addr[r] \in window

\* No call for address a is between having set the marker and having left.
NoRunInProgress(a) == \A q \in Runs : addr[q] = a => pc[q] \notin InPipeline

\* C13: when no call for an address is in progress, whatever the outcome of
\* the calls for it that have ended, the store holds no marker for it, and
\* a later call for it is not skipped: it gets past the existence check and
\* without suspension sets the marker again and starts the safety check.
C13_RetriedFromScratch ==
    [][/\ \A a \in Addrs : NoRunInProgress(a) => a \notin DOMAIN store
       /\ \A r \in Runs :
            /\ pc[r] = "start" /\ pc'[r] # "start" /\ NoRunInProgress(addr[r])
                 => pc'[r] = "checked" /\ running' = r /\ outcome'[r] = "none"
            /\ pc[r] = "checked" /\ pc'[r] # "checked"
                 => /\ pc'[r] = "safety"
                    /\ store'[addr[r]] = Marker(r)
                    /\ did'[r] = {"exists", "setex", "safety"}]_vars

C13_Witness ==
    \E r, q \in Runs :
        /\ r # q /\ addr[r] = addr[q]
        /\ pc[q] = "raised" /\ "delete" \in did[q]
        /\ pc[r] = "checked" /\ running = r /\ did[r] = {"exists"}

\* Key b is added, removed or rewritten in this step.
KeyChanged(b) ==
    \/ (b \in DOMAIN store) # (b \in DOMAIN store')
    \/ b \in DOMAIN store /\ b \in DOMAIN store' /\ store[b] # store'[b]

\* C14: calls for different addresses are independent.  A step of a call for
\* address A changes no key other than A; key A changes only in a step of a
\* call for A or when its expiry elapses; and whether a call for A is
\* skipped depends only on whether key A is in the store, so calls for other
\* addresses cannot change what a call for A does.
C14_RunsTouchOnlyTheirKey ==
    [][/\ \A r \in Runs :
            /\ pc'[r] # pc[r]
                 => \A b \in Addrs \ {addr'[r]} : ~KeyChanged(b)
            /\ pc[r] = "start" /\ pc'[r] # "start"
                 => /\ (outcome'[r] = "skip") = (addr[r] \in DOMAIN store)
                    /\ (pc'[r] = "checked") = (addr[r] \notin DOMAIN store)
       /\ \A b \in Addrs :
            KeyChanged(b)
                 => \/ \E r \in Runs :
                          /\ addr[r] = b
                          /\ pc[r] \in {"checked", "finally_return", "finally_raise"}
                          /\ pc'[r] # pc[r]
                    \/ b \in window /\ b \notin window']_vars

C14_Witness ==
    \E r, q \in Runs :
        /\ addr[r] = "a1" /\ addr[q] = "a2"
        /\ pc[r] = "returned" /\ outcome[r] = "pushed"
        /\ pc[q] = "send" /\ store = [k \in {"a2"} |-> Marker(q)]

\* The stages of one call in the order of lines 73-93.
StageOrder ==
    <<"exists", "setex", "safety", "analysis", "market", "cross", "fusion",
      "report", "push", "send">>

StagesUpTo(n) == {StageOrder[i] : i \in 1..n}

\* The number of stages a call at position p has started.
StagesAt(p) ==
    CASE p \in {"new", "start"} -> {0}
      [] p = "checked" -> {1}
      [] p = "safety" -> {3}
      [] p \in {"market", "llm", "sleep"} -> {5}
      [] p = "gather" -> {6}
      [] p = "report" -> {8}
      [] p = "send" -> {10}
      [] p \in {"finally_return", "finally_raise", "raised"} -> {3, 5, 6, 7, 8, 10}
      [] p = "returned" -> {1, 3, 7, 10}

\* C15: within one call the steps occur in the order existence check, marker
\* set, safety check, enhanced analysis, grade test, report generation,
\* push_alert, marker delete, each started only when the one before it has
\* completed; the marker is in the store when the safety check, the first
\* external work, starts; the delete is the last thing the call does.
C15_StepsInOrder ==
    [][\A r \in Runs :
         /\ \E n \in StagesAt(pc'[r]) : did'[r] \ {"delete"} = StagesUpTo(n)
         /\ "delete" \in did'[r] <=> pc'[r] \in Done /\ "setex" \in did'[r]
         /\ "safety" \in did'[r] \ did[r]
              => pc[r] = "checked" /\ store'[addr[r]] = Marker(r)
         /\ "analysis" \in did'[r] \ did[r] => pc[r] = "safety"
         /\ "cross" \in did'[r] \ did[r]
              => pc[r] \in {"llm", "sleep"} /\ analysis'[r] # "none"
         /\ "fusion" \in did'[r] \ did[r] => pc[r] = "gather" /\ Gathered(r)
         /\ "report" \in did'[r] \ did[r]
              => "fusion" \in did'[r] /\ grade'[r] \in investment_grade
         /\ "push" \in did'[r] \ did[r]
              => pc[r] = "report" /\ report'[r] \in Reports
         /\ "send" \in did'[r] \ did[r] => Len(sent'[r]) = 1
         /\ "delete" \in did'[r] \ did[r]
              => pc[r] \in {"finally_return", "finally_raise"}
         /\ "delete" \in did[r] /\ pc'[r] \in Done
              => did'[r] = did[r] /\ pc'[r] = pc[r]]_vars

C15_Witness ==
    \E r \in Runs :
        /\ pc[r] = "returned" /\ outcome[r] = "pushed"
        /\ did[r] = StagesUpTo(10) \cup {"delete"}

\* C16: in enhanced_analysis no check is dispatched before the base analysis
\* has finished, retries included; the three checks are dispatched together
\* and may complete in any order; fusion is started only when all three
\* have completed successfully, and never when one of them has faulted.
C16_ChecksAfterBaseBeforeFusion ==
    [][\A r \in Runs :
         /\ pc'[r] \in {"start", "checked", "safety", "market", "llm", "sleep"}
              => \A k \in Checks : checks'[r][k] = "idle"
         /\ \A k \in Checks :
              checks[r][k] = "idle" /\ checks'[r][k] # "idle"
                   => /\ \A j \in Checks : checks[r][j] = "idle" /\ checks'[r][j] = "running"
                      /\ \/ pc[r] = "llm" /\ analysis'[r] = "parsed"
                         \/ pc[r] = "sleep" /\ calls[r] = MaxAttempts /\ analysis'[r] = "null"
                      /\ pc'[r] = "gather"
         /\ "fusion" \in did'[r] \ did[r]
              => \A k \in Checks : checks[r][k] = "done"
         /\ (\E k \in Checks : checks'[r][k] = "faulted") => "fusion" \notin did'[r]]_vars

C16_Witness ==
    \E r, q \in Runs :
        /\ "fusion" \in did[r] /\ \A k \in Checks : checks[r][k] = "done"
        /\ pc[q] = "gather"
        /\ checks[q]["volatility"] = "done" /\ checks[q]["dev_skill"] = "running"

\* C17 as stated: in base_analysis the backoff wait comes before the next
\* attempt: the sleep after the k-th failed attempt lasts 2^(k-1) seconds
\* and every sleep is followed by another call of the analysis client, so
\* no sleep happens after the 3rd failed attempt.
C17_SleepOnlyBeforeNextAttempt ==
    [][\A r \in Runs :
         /\ pc'[r] = "sleep" => nap'[r] = 2 ^ (calls'[r] - 1)
         /\ pc[r] = "sleep" /\ pc'[r] # "sleep"
              => pc'[r] = "llm" /\ calls'[r] = calls[r] + 1
         /\ pc'[r] = "sleep" => calls'[r] < MaxAttempts]_vars

\* C18 as stated: release by owner only.  When a call executes its final
\* delete, the marker it removes, if there is one, is the marker this call
\* set; it never deletes the marker another call set for the address.
C18_ReleaseByOwnerOnly ==
    [][\A r \in Runs :
         pc[r] \in {"finally_return", "finally_raise"} /\ pc'[r] \in Done
           /\ addr[r] \in DOMAIN store
              => store[addr[r]].by = r]_vars

\* C19 as stated: no work outlives the call.  When a call has deleted its
\* marker and returned or raised, no external call it started is still in
\* flight; when one of the three gathered checks faults, the other two are
\* no longer running once the marker has been released.
C19_NoWorkOutlivesTheRun ==
    \A r \in Runs :
        pc[r] \in Done => \A k \in Checks : checks[r][k] # "running"

\* An upper bound on the steps a call at position p, in iteration n of the
\* retry loop and with c of its checks still running, has left before it ends.
StepsLeft(p, n, c) ==
    CASE p \in Done \cup {"new"} -> 0
      [] p \in {"finally_return", "finally_raise"} -> 1
      [] p = "send" -> 2
      [] p = "report" -> 3
      [] p = "gather" -> 4 + c
      [] p = "sleep" -> 8 + 2 * (MaxAttempts - 1 - n)
      [] p = "llm" -> 9 + 2 * (MaxAttempts - 1 - n)
      [] p = "market" -> 10 + 2 * MaxAttempts
      [] p = "safety" -> 11 + 2 * MaxAttempts
      [] p = "checked" -> 12 + 2 * MaxAttempts
      [] p = "start" -> 13 + 2 * MaxAttempts

RunningChecks(c) == Cardinality({k \in Checks : c[k] = "running"})

\* C20: if every external call answers or faults and every sleep elapses,
\* every process_contract call ends, by returning or by raising, whatever
\* the analysis client does: a call that has not ended can always take a
\* step (its own, one of its checks', or first the one of the call holding
\* the event loop), and every such step brings it nearer its end by a
\* measure that is bounded, so the retry loop does not go on for ever.
C20_EveryCallTerminates ==
    /\ [](\A r \in Runs :
            pc[r] \notin Done \cup {"new"}
                => IF running \in {0, r}
                     THEN ENABLED (RunStep(r) \/ CheckStep(r))
                     ELSE ENABLED RunStep(running))
    /\ [][\A r \in Runs :
            /\ pc[r] \notin Done \cup {"new"}
            /\ <<pc[r], retry[r], checks[r]>> # <<pc'[r], retry'[r], checks'[r]>>
            => /\ StepsLeft(pc'[r], retry'[r], RunningChecks(checks'[r]))
                    < StepsLeft(pc[r], retry[r], RunningChecks(checks[r]))
               /\ pc[r] \in {"llm", "sleep"} /\ pc'[r] \in {"llm", "sleep"}
                    => retry'[r] < MaxAttempts]_vars

C20_Witness ==
    \E r, q \in Runs :
        /\ pc[r] = "returned" /\ analysis[r] = "null" /\ outcome[r] = "rejected"
        /\ pc[q] = "raised" /\ outcome[q] = "market_fault"

====
